---------------------------- MODULE Spec2Model ----------------------------
(***************************************************************************)
(* A model of package tuntap: the two framings of a packet exchanged with  *)
(* the kernel device (the unprefixed one of the Linux IFF_NO_PI build, and *)
(* the 4-byte-prefixed one of tun.go), the accessors that walk the IPv4 /  *)
(* IPv6 headers of a Packet, and the pool of buffers that concurrent calls *)
(* of the prefixed WritePacket share.                                      *)
(*                                                                         *)
(* A byte string is a sequence of numbers 0..255; Go's index i is index    *)
(* i+1 of the sequence.  An error is a string: "nil", the name of the      *)
(* package's error variable, "EIO" for an error the conduit itself         *)
(* reports, and "panic" for a run-time panic (the call does not return).   *)
(***************************************************************************)
EXTENDS Integers, Sequences, FiniteSets, TLC

---------------------------------------------------------------------------
(* Bounds of the model.                                                    *)

\* the most extension headers in a generated IPv6 chain
MaxHdrs == 2
\* the most bytes that follow the IP datagram in what the conduit delivers
MaxPad == 2
\* the most WritePacket calls of one run
MaxWrites == 2

---------------------------------------------------------------------------
(* Program constants.                                                      *)

ETH_P_IP == 2048
ETH_P_IPV6 == 34525
\* the ceiling of the unprefixed WritePacket
JumboLimit == 1600
\* the size of a pooled buffer
BufferSize == 1600
\* the minimum IPv4 header, and the fixed IPv6 header
MinHeader4 == 20
MinHeader6 == 40
\* the bytes the prefixed framing puts before the body
PrefixLen == 4

---------------------------------------------------------------------------
(* Go's operators on bytes.                                                *)

RECURSIVE BitAnd(_, _)
BitAnd(a, b) ==
    IF a = 0 \/ b = 0 THEN 0
    ELSE (a % 2) * (b % 2) + 2 * BitAnd(a \div 2, b \div 2)

RECURSIVE BitOr(_, _)
BitOr(a, b) ==
    IF a = 0 THEN b
    ELSE IF b = 0 THEN a
    ELSE (IF a % 2 = 1 \/ b % 2 = 1 THEN 1 ELSE 0) + 2 * BitOr(a \div 2, b \div 2)

RECURSIVE Pow2(_)
Pow2(k) == IF k = 0 THEN 1 ELSE 2 * Pow2(k - 1)

\* x >> k
Shr(x, k) == x \div Pow2(k)

\* x << k of a uint8
Shl8(x, k) == (x * Pow2(k)) % 256

\* binary.BigEndian.Uint16(b[i:i+2])
Uint16(b, i) == b[i + 1] * 256 + b[i + 2]

\* binary.BigEndian.PutUint16: the two bytes of v
PutUint16(v) == << (v \div 256) % 256, v % 256 >>

\* b[i] of a byte slice
At(b, i) == b[i + 1]

\* b[:n]
Take(b, n) == SubSeq(b, 1, n)

\* b[k:]
Drop(b, k) == SubSeq(b, k + 1, Len(b))

Min(a, b) == IF a <= b THEN a ELSE b

Max(a, b) == IF a >= b THEN a ELSE b

---------------------------------------------------------------------------
(* The errors and the Packet.                                              *)

ErrShortRead == "ErrShortRead"
ErrJumboPacket == "ErrJumboPacket"
ErrNotIPPacket == "ErrNotIPPacket"
ErrTruncatedPacket == "ErrTruncatedPacket"
ErrShortWrite == "ErrShortWrite"

\* Packet{}: the zero Packet (a nil Body has length 0)
ZeroPacket == [Body |-> << >>, Protocol |-> 0, Truncated |-> FALSE]

Packet(body, protocol, truncated) ==
    [Body |-> body, Protocol |-> protocol, Truncated |-> truncated]

---------------------------------------------------------------------------
(* ReadPacket of the unprefixed framing: the kernel hands over the bare IP *)
(* datagram.  raw is buffer[:n], ioerr says that the conduit's Read        *)
(* reported an error.  The result is the returned Packet and error.        *)

Ret(p, e) == [pkt |-> p, err |-> e]

\* a shift by one bit too many
VersionShift5(body) == Shr(At(body, 0), 5)

\* the IP version: the first nibble of the body
Version(body) == Shr(At(body, 0), 4)

\* the length the IPv4 header declares
TotalLen4(body) == Uint16(body, 2)

\* the payload length alone, without the fixed header
TotalLen6PayloadOnly(body) == Uint16(body, 4)

\* the length the IPv6 header declares
TotalLen6(body) == MinHeader6 + Uint16(body, 4)

\* the body left as it was read
TrimNothing(body, total_len) == body

\* the body cut at the end of the IP data
Trim(body, total_len) ==
    IF Len(body) > total_len THEN Take(body, total_len) ELSE body

\* a truncated IPv4 packet dropped instead of returned with the error
ReadIPv4DropsPartial(body) ==
    IF Len(body) < MinHeader4
    THEN Ret(ZeroPacket, ErrTruncatedPacket)
    ELSE IF Len(body) < TotalLen4(body)
    THEN Ret(ZeroPacket, ErrTruncatedPacket)
    ELSE Ret(Packet(Trim(body, TotalLen4(body)), ETH_P_IP, FALSE), "nil")

\* case 4 of the switch
ReadIPv4(body) ==
    IF Len(body) < MinHeader4
    THEN Ret(Packet(body, ETH_P_IP, FALSE), ErrTruncatedPacket)
    ELSE IF Len(body) < TotalLen4(body)
    THEN Ret(Packet(body, ETH_P_IP, FALSE), ErrTruncatedPacket)
    ELSE Ret(Packet(Trim(body, TotalLen4(body)), ETH_P_IP, FALSE), "nil")

\* case 6 of the switch
ReadIPv6(body) ==
    IF Len(body) < MinHeader6
    THEN Ret(Packet(body, ETH_P_IPV6, FALSE), ErrTruncatedPacket)
    ELSE IF Len(body) < TotalLen6(body)
    THEN Ret(Packet(body, ETH_P_IPV6, FALSE), ErrTruncatedPacket)
    ELSE Ret(Packet(Trim(body, TotalLen6(body)), ETH_P_IPV6, FALSE), "nil")

\* a zero-length read
ReadEmpty == Ret(ZeroPacket, ErrShortRead)

\* the default case of the switch
ReadOther == Ret(ZeroPacket, ErrNotIPPacket)

ReadPacketResult(raw, ioerr) ==
    IF ioerr THEN Ret(ZeroPacket, "EIO")
    ELSE IF Len(raw) = 0 THEN ReadEmpty
    ELSE IF Version(raw) = 4 THEN ReadIPv4(raw)
    ELSE IF Version(raw) = 6 THEN ReadIPv6(raw)
    ELSE ReadOther

---------------------------------------------------------------------------
(* ReadPacket of the 4-byte-prefixed framing (tun.go): two bytes of flags  *)
(* in the machine's byte order, the protocol big-endian, then the body.    *)

\* Linux's TUN_PKT_STRIP; FreeBSD's build sets flagTruncated to 0
TUN_PKT_STRIP == 1

\* *(*uint16)(unsafe.Pointer(&buffer[0])): the flags in the machine's order
NativeUint16(b, littleEndian) ==
    IF littleEndian THEN At(b, 0) + 256 * At(b, 1)
                    ELSE 256 * At(b, 0) + At(b, 1)

\* buffer[4:n] panics (slice bounds out of range) when n < 4
PrefixedSliceOk(raw) == Len(raw) >= PrefixLen

ReadPacketPrefixedResult(raw, ioerr, flagTruncated, littleEndian) ==
    IF ioerr THEN Ret(ZeroPacket, "EIO")
    ELSE IF ~PrefixedSliceOk(raw) THEN Ret(ZeroPacket, "panic")
    ELSE Ret(Packet(Drop(raw, PrefixLen), Uint16(raw, 2),
                    BitAnd(NativeUint16(raw, littleEndian), flagTruncated) # 0),
             "nil")

---------------------------------------------------------------------------
(* IPProto: the IP protocol, the offset of the IP payload, and whether the *)
(* payload is of a non-first fragment.  Beside the three results the       *)
(* operators record the Body indices the code dereferences (reads), the    *)
(* passes through the loop (iters), and panic: Go's index expression       *)
(* panics on an index outside the slice.                                   *)

Result(proto, at, frag, reads, iters) ==
    [proto |-> proto, at |-> at, frag |-> frag, panic |-> FALSE,
     reads |-> reads, iters |-> iters]

\* return 0, 0, false
Fail(reads, iters) == Result(0, 0, FALSE, reads, iters)

\* an index expression outside the slice
Panic(reads, iters) ==
    [proto |-> 0, at |-> 0, frag |-> FALSE, panic |-> TRUE,
     reads |-> reads, iters |-> iters]

InRange(body, idx) == \A i \in idx : 0 <= i /\ i < Len(body)

\* the more-fragments flag taken in with the offset bits
Fragment4WithMF(body) == BitOr(BitAnd(At(body, 6), 63), At(body, 7)) # 0

\* IPv4: the 13 bits of the fragment offset
Fragment4(body) == BitOr(BitAnd(At(body, 6), 31), At(body, 7)) # 0

\* IPv4: the header length, int(p.Body[0]&0xf) << 2
HeaderLen4(body) == BitAnd(At(body, 0), 15) * 4

IPProto4(body) ==
    IF Len(body) >= MinHeader4
    THEN Result(At(body, 9), HeaderLen4(body), Fragment4(body), {0, 6, 7, 9}, 0)
    ELSE Fail({}, 0)

\* a check of the offset alone, not of the bytes to be read
GenericFitsAtOnly(body, at) == ~(at > Len(body))

\* the bounds checks of the loop's cases
GenericFits(body, at) == ~(at + 4 > Len(body))

FragmentFits(body, at) == ~(at + 8 > Len(body))

AHFits(body, at) == ~(at + 8 > Len(body))

\* an end of the chain exactly at the end of the body taken as off the end
EndFitsStrict(body, at) == ~(at >= Len(body))

EndFits(body, at) == ~(at > Len(body))

\* a step of 4 bytes and the length, not of 8
GenericEnd4(body, at) == at + 4 + At(body, at + 1) * 8

\* the offset after a hop-by-hop, routing or destination options header
GenericEnd(body, at) == at + 8 + At(body, at + 1) * 8

\* the AH length taken in 8-byte units, like the other headers'
AHEnd8(body, at) == at + 8 + At(body, at + 1) * 8

\* the offset after an AH header: its length is in 4-byte units
AHEnd(body, at) == at + 8 + At(body, at + 1) * 4

\* the more-fragments flag taken in with the offset bits
Fragment6WithMF(body, at) ==
    BitOr(At(body, at + 2), BitAnd(At(body, at + 3), 249)) # 0

\* the fragment header's offset bits
Fragment6(body, at) ==
    BitOr(At(body, at + 2), BitAnd(At(body, at + 3), 248)) # 0

IsGeneric(next) == next \in {0, 43, 60}

RECURSIVE Walk6(_, _, _, _, _)
Walk6(body, next, at, reads, iters) ==
    IF IsGeneric(next) THEN
        IF ~GenericFits(body, at) THEN Fail(reads, iters + 1)
        ELSE IF ~InRange(body, {at, at + 1})
        THEN Panic(reads \cup {at, at + 1}, iters + 1)
        ELSE Walk6(body, At(body, at), GenericEnd(body, at),
                   reads \cup {at, at + 1}, iters + 1)
    ELSE IF next = 44 THEN
        IF ~FragmentFits(body, at) THEN Fail(reads, iters + 1)
        ELSE IF ~InRange(body, {at, at + 2, at + 3})
        THEN Panic(reads \cup {at, at + 2, at + 3}, iters + 1)
        ELSE IF Fragment6(body, at)
        THEN Result(At(body, at), at + 8, TRUE,
                    reads \cup {at, at + 2, at + 3}, iters + 1)
        ELSE Walk6(body, At(body, at), at + 8,
                   reads \cup {at, at + 2, at + 3}, iters + 1)
    ELSE IF next = 51 THEN
        IF ~AHFits(body, at) THEN Fail(reads, iters + 1)
        ELSE IF ~InRange(body, {at, at + 1})
        THEN Panic(reads \cup {at, at + 1}, iters + 1)
        ELSE Walk6(body, At(body, at), AHEnd(body, at),
                   reads \cup {at, at + 1}, iters + 1)
    ELSE IF next = 59 THEN
        IF ~EndFits(body, at) THEN Fail(reads, iters + 1)
        ELSE Result(0, Len(body), FALSE, reads, iters + 1)
    ELSE
        IF ~EndFits(body, at) THEN Fail(reads, iters + 1)
        ELSE Result(next, at, FALSE, reads, iters + 1)

IPProto6(body) ==
    IF Len(body) >= MinHeader6
    THEN Walk6(body, At(body, 6), MinHeader6, {6}, 0)
    ELSE Fail({}, 0)

IPProto(p) ==
    IF p.Protocol = ETH_P_IP THEN IPProto4(p.Body)
    ELSE IF p.Protocol = ETH_P_IPV6 THEN IPProto6(p.Body)
    ELSE Fail({}, 0)

\* no call of IPProto yet
NoResult ==
    [proto |-> 0, at |-> 0, frag |-> FALSE, panic |-> FALSE,
     reads |-> {}, iters |-> 0]

---------------------------------------------------------------------------
(* ICMPType: the IP protocol and the ICMP type and code of an ICMP packet, *)
(* or three zeros.                                                         *)

ICMP(proto, type, code) ==
    [proto |-> proto, type |-> type, code |-> code, panic |-> FALSE]

\* return 0, 0, 0
NoICMP == ICMP(0, 0, 0)

\* two bytes after the offset taken as enough
ICMPFitsTwo(body, at) == at + 2 <= Len(body)

\* at+4 <= len(p.Body)
ICMPFits(body, at) == at + 4 <= Len(body)

\* the two cases of the switch: the type and code bytes at the offset
ICMPAt(body, proto, at) ==
    IF ~ICMPFits(body, at) THEN NoICMP
    ELSE IF ~InRange(body, {at, at + 1})
    THEN [proto |-> 0, type |-> 0, code |-> 0, panic |-> TRUE]
    ELSE ICMP(proto, At(body, at), At(body, at + 1))

ICMPType(p) ==
    LET r == IPProto(p) IN
    IF r.panic THEN [proto |-> 0, type |-> 0, code |-> 0, panic |-> TRUE]
    ELSE IF ~r.frag /\ r.proto \in {1, 58} THEN ICMPAt(p.Body, r.proto, r.at)
    ELSE NoICMP

---------------------------------------------------------------------------
(* DSCP: the 6 bits of the differentiated services code point.             *)

\* int(p.Body[1] >> 2)
DSCP4(body) == Shr(At(body, 1), 2)

\* the second byte shifted by the width of a nibble
DSCP6Shr4(body) ==
    BitOr(Shl8(BitAnd(At(body, 0), 15), 2), Shr(BitAnd(At(body, 1), 240), 4))

\* int((p.Body[0]&0x0f)<<2 | (p.Body[1]&0xf0)>>6)
DSCP6(body) ==
    BitOr(Shl8(BitAnd(At(body, 0), 15), 2), Shr(BitAnd(At(body, 1), 240), 6))

DSCP(p) ==
    IF p.Protocol = ETH_P_IP /\ Len(p.Body) >= MinHeader4 THEN DSCP4(p.Body)
    ELSE IF p.Protocol = ETH_P_IPV6 /\ Len(p.Body) >= MinHeader6 THEN DSCP6(p.Body)
    ELSE 0

---------------------------------------------------------------------------
(* WritePacket.  The conduit's Write answers with a byte count a and       *)
(* possibly an error (fail).                                               *)

\* the byte count looked at before the conduit's error
WriteReturnCountFirst(n, a, fail) ==
    IF a # n THEN ErrShortWrite
    ELSE IF fail THEN "EIO"
    ELSE "nil"

\* what WritePacket returns after the conduit's Write of n bytes
WriteReturn(n, a, fail) ==
    IF fail THEN "EIO"
    ELSE IF a # n THEN ErrShortWrite
    ELSE "nil"

\* the unprefixed framing refuses a body over the ceiling
IsJumbo(p) == Len(p.Body) > JumboLimit

\* A pooled buffer is a [1600]byte.  The model keeps of it the bytes up to
\* the end of the longest frame ever put in it; the bytes after those are
\* the zeros that new([1600]byte) made.

\* new([1600]byte)
NewBuffer == << >>

\* buf[i] of a pooled buffer
BufAt(buf, i) == IF i < Len(buf) THEN buf[i + 1] ELSE 0

\* the pooled buffer after PutUint16(buf[2:4], Protocol) and copy(buf[4:], Body):
\* copy stops at the end of the buffer
Framed(buf, p) ==
    LET head == << BufAt(buf, 0), BufAt(buf, 1) >> \o PutUint16(p.Protocol)
                \o Take(p.Body, Min(Len(p.Body), BufferSize - PrefixLen))
    IN head \o Drop(buf, Min(Len(head), Len(buf)))

\* n := 4 + len(pkt.Body)
PrefixedLen(p) == PrefixLen + Len(p.Body)

\* buf[:n] of the 1600-byte array panics when n > 1600
PrefixedFits(p) == PrefixedLen(p) <= BufferSize

\* all that the array holds handed over, not its first n bytes
BufWhole(buf, n) ==
    IF n <= Len(buf) THEN buf
    ELSE buf \o [i \in 1..(n - Len(buf)) |-> 0]

\* buf[:n]
BufTake(buf, n) ==
    IF n <= Len(buf) THEN Take(buf, n)
    ELSE buf \o [i \in 1..(n - Len(buf)) |-> 0]

\* the pool without its k-th buffer
Without(q, k) == SubSeq(q, 1, k - 1) \o SubSeq(q, k + 1, Len(q))

\* the byte counts a conduit may report for a write of n bytes
WriteCounts(n) == {n} \cup {a \in {0, n - 1} : a >= 0}

---------------------------------------------------------------------------
(* The datagrams of the model.                                             *)

\* the payload byte at index k: never zero, so that a cut shows
Pay(k) == 1 + (k % 250)

\* the 20 bytes of an IPv4 header with the given fields
Header4(b0, b1, total, b6, b7, proto) ==
    [i \in 1..20 |->
        CASE i = 1 -> b0
          [] i = 2 -> b1
          [] i = 3 -> total \div 256
          [] i = 4 -> total % 256
          [] i = 7 -> b6
          [] i = 8 -> b7
          [] i = 10 -> proto
          [] OTHER -> 0]

\* the 40 bytes of an IPv6 header with the given fields
Header6(b0, b1, payload, next) ==
    [i \in 1..40 |->
        CASE i = 1 -> b0
          [] i = 2 -> b1
          [] i = 5 -> payload \div 256
          [] i = 6 -> payload % 256
          [] i = 7 -> next
          [] OTHER -> 0]

\* payload bytes for the indices from up to n - 1
PayBytes(from, n) == [i \in 1..Max(n - from, 0) |-> Pay(from + i - 1)]

\* the first n bytes of an IPv4 datagram: the header, then payload
V4(b0, b1, total, b6, b7, proto, n) ==
    Take(Header4(b0, b1, total, b6, b7, proto) \o PayBytes(20, n), n)

\* the first n bytes of an IPv6 datagram: the fixed header, then ext (the
\* extension headers), then payload
V6(b0, b1, payload, next, ext, n) ==
    Take(Header6(b0, b1, payload, next) \o ext \o PayBytes(40 + Len(ext), n), n)

\* the lengths within MaxPad of total, as far as the model goes
Near(total) == {n \in (total - MaxPad)..(total + MaxPad) : n >= 0 /\ n <= 64}

Codec4 ==
    UNION {{V4(69, 0, tl, 0, 0, 6, n) : n \in Near(tl) \cup {1, 19, 20, 21}} :
           tl \in {0, 20, 28, 300, 65535}}

Codec6 ==
    UNION {{V6(96, 0, pl, 6, << >>, n) : n \in Near(40 + pl) \cup {1, 39, 40, 41}} :
           pl \in {0, 8, 300, 65535}}

CodecOther ==
    {V4(v * 16 + 5, 0, n, 0, 0, 6, n) : v \in (0..15) \ {4, 6}, n \in {1, 20, 40}}

\* bodies around the ceiling of WritePacket and the size of a pooled buffer
CodecLong ==
    {V4(69, 0, n, 0, 0, 6, n) :
        n \in {BufferSize - PrefixLen, BufferSize - PrefixLen + 1,
               JumboLimit, JumboLimit + 1}}

CodecData == Codec4 \cup Codec6 \cup CodecOther \cup CodecLong \cup {<< >>}

\* the 4-byte prefixes the kernel may put before a datagram
Prefixes ==
    {<<f, 0>> \o PutUint16(proto) : f \in {0, 1}, proto \in {ETH_P_IP, ETH_P_IPV6}}

\* what a read of the prefixed conduit may deliver when data is the datagram
PrefixedReads(d) ==
    {pre \o d : pre \in Prefixes} \cup {Take(pre, k) : pre \in Prefixes, k \in 0..3}

---------------------------------------------------------------------------
(* The packets the accessors are applied to: IPv4 headers, and IPv6        *)
(* headers followed by a chain of extension headers.  An extension header  *)
(* is [t: its type, l: its length byte, b2, b3: its bytes 2 and 3].        *)

Generic(t, l) == [t |-> t, l |-> l, b2 |-> 0, b3 |-> 0]

FragmentHdr(b2, b3) == [t |-> 44, l |-> 0, b2 |-> b2, b3 |-> b3]

AH(l) == [t |-> 51, l |-> l, b2 |-> 0, b3 |-> 0]

\* the bytes an extension header occupies
HdrSize(h) ==
    IF h.t = 44 THEN 8
    ELSE IF h.t = 51 THEN 8 + 4 * h.l
    ELSE 8 + 8 * h.l

\* the bytes of extension header h, followed by a header of type nxt
HdrBytes(h, nxt) ==
    [i \in 1..HdrSize(h) |->
        CASE i = 1 -> nxt
          [] i = 2 -> h.l
          [] i = 3 -> h.b2
          [] i = 4 -> h.b3
          [] OTHER -> 0]

RECURSIVE ChainBytes(_, _)
ChainBytes(chain, last) ==
    IF chain = << >> THEN << >>
    ELSE HdrBytes(Head(chain), IF Len(chain) > 1 THEN chain[2].t ELSE last)
         \o ChainBytes(Tail(chain), last)

\* the next-header byte of the fixed header
FirstNext(chain, last) == IF chain = << >> THEN last ELSE chain[1].t

HdrKinds ==
    {Generic(0, 0), Generic(43, 1), Generic(60, 0),
     FragmentHdr(0, 0), FragmentHdr(0, 1), FragmentHdr(0, 8), FragmentHdr(1, 0),
     AH(0), AH(2)}

Chains == UNION {[1..k -> HdrKinds] : k \in 0..MaxHdrs}

\* the types that end a chain: TCP, ICMPv6, no-next-header
Lasts == {6, 58, 59}

\* an IPv6 packet of n bytes with the chain and what ends it
Packet6(chain, last, n) ==
    Packet(V6(96, 0, Max(n - 40, 0), FirstNext(chain, last),
              ChainBytes(chain, last), n),
           ETH_P_IPV6, FALSE)

\* whole, with MaxPad bytes of payload, or cut short: the bytes more or
\* fewer than the headers take
CutDeltas == {0, MaxPad, -1, -4, -5, -8}

ChainPackets ==
    {Packet6(c, last, 40 + Len(ChainBytes(c, last)) + d) :
        c \in Chains, last \in Lasts, d \in CutDeltas}

\* length bytes that point far beyond the body
WildPackets ==
    {Packet6(<<h>>, 6, n) :
        h \in {Generic(0, 255), Generic(43, 7), AH(255)},
        n \in {40, 41, 43, 44, 47, 48, 49, 56}}

Packets4 ==
    {Packet(V4(b0, 0, n, b6, b7, proto, n), ETH_P_IP, FALSE) :
        b0 \in {64, 69, 79}, b6 \in {0, 1, 31, 32, 33, 64}, b7 \in {0, 1, 255},
        proto \in {1, 6}, n \in {19, 20, 24}}

\* a Protocol that is neither, and bodies under the other version's tag
OddPackets ==
    {Packet(V4(69, 0, n, 0, 0, 6, n), proto, FALSE) :
        proto \in {0, 2054, ETH_P_IPV6}, n \in {20, 44, 48}}
    \cup {Packet(V6(96, 0, 0, 59, << >>, n), ETH_P_IP, FALSE) : n \in {19, 40}}

\* an ICMP echo request behind an IPv4 header of 20 or 24 bytes, and an
\* ICMPv6 echo request behind a chain; whole, or cut inside the ICMP header
IcmpPackets4 ==
    UNION {{Packet(Take(Header4(64 + ihl, 0, n, b6, b7, 1)
                        \o [i \in 1..(4 * ihl - 20) |-> 0] \o <<8, 0, 0, 0>>, n),
                   ETH_P_IP, FALSE) :
               b6 \in {0, 32}, b7 \in {0, 1}, n \in {4 * ihl + k : k \in {0, 2, 3, 4}}} :
           ihl \in {5, 6}}

IcmpPackets6 ==
    UNION {{Packet(V6(96, 0, Max(n - 40, 0), FirstNext(c, 58),
                      ChainBytes(c, 58) \o <<128, 0, 0, 0>>, n),
                   ETH_P_IPV6, FALSE) :
               n \in {40 + Len(ChainBytes(c, 58)) + k : k \in {0, 2, 3, 4}}} :
           c \in {<< >>, <<Generic(0, 0)>>, <<FragmentHdr(0, 1)>>,
                  <<FragmentHdr(0, 8)>>, <<AH(1)>>}}

IcmpPackets == IcmpPackets4 \cup IcmpPackets6

\* every value of the traffic class byte, in an IPv4 and in an IPv6 header,
\* with bits set and cleared around it; whole headers and cut ones
DscpPackets4 ==
    {Packet(V4(b0, tc, n, 0, 0, 6, n), ETH_P_IP, FALSE) :
        tc \in 0..255, b0 \in {69, 255}, n \in {19, 20}}

DscpPackets6 ==
    {Packet(V6(hi * 16 + tc \div 16, (tc % 16) * 16 + flow, 0, 59, << >>, n),
            ETH_P_IPV6, FALSE) :
        tc \in 0..255, hi \in {6, 15}, flow \in {0, 15}, n \in {39, 40}}

DscpPackets == DscpPackets4 \cup DscpPackets6

HeaderPackets ==
    ChainPackets \cup WildPackets \cup Packets4 \cup OddPackets
        \cup IcmpPackets \cup DscpPackets

---------------------------------------------------------------------------
(* The state.                                                              *)

VARIABLES
    build,  \* "nopi": the unprefixed framing; "pi": the prefixed one (tun.go)
    data,   \* the datagram of this run: what the kernel has for the next
            \* read, and the Body of the Packet a caller builds
    raw,    \* buffer[:n] of the last ReadPacket
    io,     \* the conduit call of the last ReadPacket or WritePacket:
            \* whether it was made, the byte count and whether an error came
    pkt,    \* the Packet at hand: read, or built by the caller
    err,    \* what the last ReadPacket or WritePacket returned
    op,     \* the last call
    res,    \* what the last IPProto returned
    sent,   \* the byte strings handed to the conduit's Write, in order
    pool,   \* the free buffers of the sync.Pool
    icmp,   \* what the last ICMPType returned
    dscp,   \* what the last DSCP returned
    calls,  \* concurrent callers of the prefixed WritePacket: where each is
            \* in its call, its Packet, its buffer, and what it returned
    bufs,   \* the [1600]byte arrays made by the pool's New, in order
    free    \* the arrays that lie in the sync.Pool: indices of bufs

vars == <<build, data, raw, io, pkt, err, op, res, sent, pool,
          icmp, dscp, calls, bufs, free>>

\* the conduit was called, and answered n bytes, with an error or not
Called(n, fail) == [called |-> TRUE, n |-> n, fail |-> fail]

NotCalled == [called |-> FALSE, n |-> 0, fail |-> FALSE]

\* the goroutines that call the prefixed WritePacket at the same time
Callers == {"a", "b"}

\* a caller outside any call: k counts its calls, err is what the last one
\* returned
Idle(k, e) ==
    [pc |-> "idle", pkt |-> ZeroPacket, buf |-> 0, frame |-> << >>,
     a |-> 0, fail |-> FALSE, err |-> e, k |-> k]

IdleCall == Idle(0, "nil")

\* nothing called yet beside the codec
Quiet ==
    /\ icmp = NoICMP
    /\ dscp = 0
    /\ calls = [c \in Callers |-> IdleCall]
    /\ bufs = << >>
    /\ free = {}

Start ==
    /\ raw = << >>
    /\ io = NotCalled
    /\ pkt = ZeroPacket
    /\ err = "nil"
    /\ op = "none"
    /\ res = NoResult
    /\ sent = << >>
    /\ pool = << >>
    /\ Quiet

\* a device just opened, with one datagram to exchange
Init ==
    /\ build \in {"nopi", "pi"}
    /\ data \in CodecData
    /\ Start

\* a Packet whose headers are to be read (the accessors are the same code
\* in both builds)
InitClassifier ==
    /\ build = "nopi"
    /\ data = << >>
    /\ raw = << >>
    /\ io = NotCalled
    /\ pkt \in HeaderPackets
    /\ err = "nil"
    /\ op = "NewPacket"
    /\ res = NoResult
    /\ sent = << >>
    /\ pool = << >>
    /\ Quiet

---------------------------------------------------------------------------
(* The calls.                                                              *)

\* the unprefixed ReadPacket
ReadPacket ==
    /\ build = "nopi"
    /\ op = "none"
    /\ \E ioerr \in BOOLEAN :
         LET r == ReadPacketResult(data, ioerr) IN
         /\ raw' = data
         /\ io' = Called(Len(data), ioerr)
         /\ pkt' = r.pkt
         /\ err' = r.err
    /\ op' = "ReadPacket"
    /\ UNCHANGED <<build, data, res, sent, pool, icmp, dscp, calls, bufs,
                   free>>

\* the prefixed ReadPacket
ReadPacketPrefixed ==
    /\ build = "pi"
    /\ op = "none"
    /\ \E rd \in PrefixedReads(data), ioerr \in BOOLEAN,
          flagTruncated \in {0, TUN_PKT_STRIP}, littleEndian \in BOOLEAN :
         LET r == ReadPacketPrefixedResult(rd, ioerr, flagTruncated, littleEndian) IN
         /\ raw' = rd
         /\ io' = Called(Len(rd), ioerr)
         /\ pkt' = r.pkt
         /\ err' = r.err
    /\ op' = "ReadPacket"
    /\ UNCHANGED <<build, data, res, sent, pool, icmp, dscp, calls, bufs,
                   free>>

\* the caller builds a Packet to send
NewPacket ==
    /\ op = "none"
    /\ \E protocol \in {ETH_P_IP, ETH_P_IPV6} :
         pkt' = Packet(data, protocol, FALSE)
    /\ op' = "NewPacket"
    /\ UNCHANGED <<build, data, raw, io, err, res, sent, pool, icmp, dscp,
                   calls, bufs, free>>

\* IPProto of the Packet at hand
IPProtoCall ==
    /\ op \in {"ReadPacket", "NewPacket"}
    /\ res' = IPProto(pkt)
    /\ op' = "IPProto"
    /\ UNCHANGED <<build, data, raw, io, pkt, err, sent, pool, icmp, dscp,
                   calls, bufs, free>>

\* ICMPType of the Packet at hand; it calls IPProto
ICMPTypeCall ==
    /\ op \in {"ReadPacket", "NewPacket"}
    /\ res' = IPProto(pkt)
    /\ icmp' = ICMPType(pkt)
    /\ op' = "ICMPType"
    /\ UNCHANGED <<build, data, raw, io, pkt, err, sent, pool, dscp, calls,
                   bufs, free>>

\* DSCP of the Packet at hand
DSCPCall ==
    /\ op \in {"ReadPacket", "NewPacket"}
    /\ dscp' = DSCP(pkt)
    /\ op' = "DSCP"
    /\ UNCHANGED <<build, data, raw, io, pkt, err, res, sent, pool, icmp,
                   calls, bufs, free>>

\* the unprefixed WritePacket
WritePacket ==
    /\ build = "nopi"
    /\ op \in {"NewPacket", "WritePacket"}
    /\ Len(sent) < MaxWrites
    /\ IF IsJumbo(pkt)
       THEN /\ err' = ErrJumboPacket
            /\ io' = NotCalled
            /\ sent' = sent
       ELSE \E a \in WriteCounts(Len(pkt.Body)), fail \in BOOLEAN :
              /\ sent' = Append(sent, pkt.Body)
              /\ io' = Called(a, fail)
              /\ err' = WriteReturn(Len(pkt.Body), a, fail)
    /\ op' = "WritePacket"
    /\ UNCHANGED <<build, data, raw, pkt, res, pool, icmp, dscp, calls, bufs,
                   free>>

\* the prefixed WritePacket; k = 0 stands for a buffer the pool makes anew
WritePacketPrefixed ==
    /\ build = "pi"
    /\ op \in {"NewPacket", "WritePacket"}
    /\ Len(sent) < MaxWrites
    /\ \E k \in 0..Len(pool) :
         LET got == IF k = 0 THEN NewBuffer ELSE pool[k]
             rest == IF k = 0 THEN pool ELSE Without(pool, k)
             buf == Framed(got, pkt)
             n == PrefixedLen(pkt)
         IN IF ~PrefixedFits(pkt)
            THEN /\ err' = "panic"
                 /\ io' = NotCalled
                 /\ sent' = sent
                 /\ pool' = rest
            ELSE \E a \in WriteCounts(n), fail \in BOOLEAN :
                   /\ sent' = Append(sent, BufTake(buf, n))
                   /\ io' = Called(a, fail)
                   /\ pool' = Append(rest, buf)
                   /\ err' = WriteReturn(n, a, fail)
    /\ op' = "WritePacket"
    /\ UNCHANGED <<build, data, raw, pkt, res, icmp, dscp, calls, bufs, free>>

---------------------------------------------------------------------------
(* The prefixed WritePacket called by several goroutines at once, statement *)
(* by statement.  A call is at "got" after buffers.Get, at "framed" after  *)
(* PutUint16 and copy, at "written" after the conduit's Write, and "idle"  *)
(* again after buffers.Put and the return.                                 *)

\* the Packets the callers send: short ones of different lengths, one that
\* fills the array, and one that is a byte too long for it
WirePackets ==
    {Packet(<<11, 12, 13>>, ETH_P_IP, FALSE),
     Packet(<<21>>, ETH_P_IPV6, FALSE),
     Packet(V4(69, 0, BufferSize - PrefixLen, 0, 0, 6, BufferSize - PrefixLen),
            ETH_P_IP, FALSE),
     Packet(V4(69, 0, BufferSize - PrefixLen + 1, 0, 0, 6, BufferSize - PrefixLen + 1),
            ETH_P_IP, FALSE)}

\* what the conduit's Write may answer for n bytes: all written, a short
\* count, or an error
WriteOutcomes(n) ==
    {[a |-> n, fail |-> FALSE], [a |-> n - 1, fail |-> FALSE], [a |-> 0, fail |-> TRUE]}

\* the calls begun so far by the callers in S
RECURSIVE Begun(_)
Begun(S) ==
    IF S = {} THEN 0
    ELSE LET c == CHOOSE x \in S : TRUE IN calls[c].k + Begun(S \ {c})

\* buf := buffers.Get(): an array that lies in the pool, or one that New
\* makes (id = 0), as always when none lies in the pool
Get(c) ==
    /\ calls[c].pc = "idle"
    /\ Begun(Callers) < MaxWrites
    /\ \E p \in WirePackets, id \in free \cup {0} :
         /\ bufs' = IF id = 0 THEN Append(bufs, NewBuffer) ELSE bufs
         /\ free' = free \ {id}
         /\ calls' = [calls EXCEPT ![c] =
                [pc |-> "got", pkt |-> p,
                 buf |-> IF id = 0 THEN Len(bufs) + 1 ELSE id,
                 frame |-> << >>, a |-> 0, fail |-> FALSE, err |-> "nil",
                 k |-> @.k + 1]]
    /\ UNCHANGED <<build, data, raw, io, pkt, err, op, res, sent, pool, icmp,
                   dscp>>

\* the array handed back before the frame is written
FrameAndPut(c) ==
    /\ calls[c].pc = "got"
    /\ bufs' = [bufs EXCEPT ![calls[c].buf] = Framed(@, calls[c].pkt)]
    /\ free' = free \cup {calls[c].buf}
    /\ calls' = [calls EXCEPT ![c].pc = "framed"]
    /\ UNCHANGED <<build, data, raw, io, pkt, err, op, res, sent, pool, icmp,
                   dscp>>

\* binary.BigEndian.PutUint16(buf[2:4], pkt.Protocol); copy(buf[4:], pkt.Body)
Frame(c) ==
    /\ calls[c].pc = "got"
    /\ bufs' = [bufs EXCEPT ![calls[c].buf] = Framed(@, calls[c].pkt)]
    /\ calls' = [calls EXCEPT ![c].pc = "framed"]
    /\ UNCHANGED <<build, data, raw, io, pkt, err, op, res, sent, pool, icmp,
                   dscp, free>>

\* n := 4 + len(pkt.Body); a, err := t.file.Write(buf[:n]): the slice
\* expression panics when n > 1600, and the call ends without its Put
Write(c) ==
    /\ calls[c].pc = "framed"
    /\ IF ~PrefixedFits(calls[c].pkt)
       THEN calls' = [calls EXCEPT ![c] = Idle(@.k, "panic")]
       ELSE \E o \in WriteOutcomes(PrefixedLen(calls[c].pkt)) :
              calls' = [calls EXCEPT ![c].pc = "written",
                                     ![c].frame = BufTake(bufs[calls[c].buf],
                                                          PrefixedLen(calls[c].pkt)),
                                     ![c].a = o.a,
                                     ![c].fail = o.fail]
    /\ UNCHANGED <<build, data, raw, io, pkt, err, op, res, sent, pool, icmp,
                   dscp, bufs, free>>

\* buffers.Put(buf), and the return
Put(c) ==
    /\ calls[c].pc = "written"
    /\ free' = free \cup {calls[c].buf}
    /\ calls' = [calls EXCEPT ![c] =
           Idle(@.k, WriteReturn(PrefixedLen(@.pkt), @.a, @.fail))]
    /\ UNCHANGED <<build, data, raw, io, pkt, err, op, res, sent, pool, icmp,
                   dscp, bufs>>

Next ==
    \/ ReadPacket
    \/ ReadPacketPrefixed
    \/ NewPacket
    \/ IPProtoCall
    \/ ICMPTypeCall
    \/ DSCPCall
    \/ WritePacket
    \/ WritePacketPrefixed

Spec == Init /\ [][Next]_vars

NextClassifier ==
    \/ IPProtoCall
    \/ ICMPTypeCall
    \/ DSCPCall

SpecClassifier == InitClassifier /\ [][NextClassifier]_vars

\* a device of the prefixed framing, and callers that write to it
InitPool ==
    /\ build = "pi"
    /\ data = << >>
    /\ Start

NextPool ==
    \/ \E c \in Callers : Get(c)
    \/ \E c \in Callers : Frame(c)
    \/ \E c \in Callers : Write(c)
    \/ \E c \in Callers : Put(c)

SpecPool == InitPool /\ [][NextPool]_vars

---------------------------------------------------------------------------
(* What the claims speak of, read off the bytes themselves.                *)

\* a ReadPacket of the unprefixed framing has returned, its conduit read
\* without an error and not empty
ReadUnprefixed ==
    build = "nopi" /\ op = "ReadPacket" /\ ~io.fail /\ Len(raw) > 0

\* the version nibble of what was read
Nibble(b) == b[1] \div 16

\* the total-length field of an IPv4 header
Declared4(b) == b[3] * 256 + b[4]

\* 40 and the payload-length field of an IPv6 header
Declared6(b) == 40 + b[5] * 256 + b[6]

\* the datagram of the last read: what follows the prefix, if there is one
Datagram == IF build = "pi" THEN SubSeq(raw, 5, Len(raw)) ELSE raw

---------------------------------------------------------------------------
(* C1: the unprefixed ReadPacket, given a body of version 4 with at least  *)
(* 20 bytes or of version 6 with at least 40 bytes whose declared length L *)
(* is at most the bytes read, returns a nil error and a Packet whose Body  *)
(* is the first L bytes read, tagged 0x0800 or 0x86dd.                     *)
C1_ReadTrimsToDeclared ==
    ReadUnprefixed =>
        /\ (Nibble(raw) = 4 /\ Len(raw) >= 20 /\ Declared4(raw) <= Len(raw))
             => /\ err = "nil"
                /\ pkt.Body = SubSeq(raw, 1, Declared4(raw))
                /\ pkt.Protocol = 2048
        /\ (Nibble(raw) = 6 /\ Len(raw) >= 40 /\ Declared6(raw) <= Len(raw))
             => /\ err = "nil"
                /\ pkt.Body = SubSeq(raw, 1, Declared6(raw))
                /\ pkt.Protocol = 34525

\* an IPv6 datagram read with bytes after its declared end, which are cut
C1_Witness ==
    /\ ReadUnprefixed
    /\ Nibble(raw) = 6
    /\ Len(raw) >= 40
    /\ Declared6(raw) < Len(raw)
    /\ err = "nil"
    /\ Len(pkt.Body) < Len(raw)

(* C2: the unprefixed ReadPacket, given a body of version 4 or 6 shorter   *)
(* than the minimum header or than its declared length, returns            *)
(* ErrTruncatedPacket and a Packet whose Body is all the bytes read, with  *)
(* the Protocol of the version nibble.                                     *)
C2_TruncatedKeepsBody ==
    ReadUnprefixed =>
        /\ (Nibble(raw) = 4 /\ (Len(raw) < 20 \/ Len(raw) < Declared4(raw)))
             => /\ err = ErrTruncatedPacket
                /\ pkt.Body = raw
                /\ pkt.Protocol = 2048
        /\ (Nibble(raw) = 6 /\ (Len(raw) < 40 \/ Len(raw) < Declared6(raw)))
             => /\ err = ErrTruncatedPacket
                /\ pkt.Body = raw
                /\ pkt.Protocol = 34525

\* a whole IPv4 header that declares more bytes than were read
C2_Witness ==
    /\ ReadUnprefixed
    /\ Nibble(raw) = 4
    /\ Len(raw) >= 20
    /\ Len(raw) < Declared4(raw)
    /\ err = ErrTruncatedPacket
    /\ pkt.Body = raw

\* the length the IP header of datagram b declares under tag protocol, or -1
DeclaredBy(b, protocol) ==
    IF protocol = 2048 /\ Len(b) >= 20 THEN Declared4(b)
    ELSE IF protocol = 34525 /\ Len(b) >= 40 THEN Declared6(b)
    ELSE -1

C4_NotIP ==
    (ReadUnprefixed /\ Nibble(raw) \notin {4, 6})
        => /\ err = ErrNotIPPacket
           /\ pkt.Body = << >>
           /\ pkt.Protocol = 0

\* a body of 40 bytes of version 5
C4_Witness ==
    /\ ReadUnprefixed
    /\ Nibble(raw) = 5
    /\ Len(raw) >= 40
    /\ err = ErrNotIPPacket

(* C5: in every framing, a conduit read of 0 bytes without an error (and,  *)
(* prefixed, of fewer than the 4 bytes of the prefix) makes ReadPacket     *)
(* return ErrShortRead and no Packet, and fail in no other way.            *)
C5_EmptyReadIsShortRead ==
    (op = "ReadPacket" /\ ~io.fail /\ (io.n = 0 \/ (build = "pi" /\ io.n < 4)))
        => /\ err = ErrShortRead
           /\ pkt = ZeroPacket

(* C6: in every framing, WritePacket of a Body over 1600 bytes returns     *)
(* ErrJumboPacket without a write on the conduit, and a Body of at most    *)
(* 1600 bytes is not refused as jumbo.                                     *)
C6_JumboRefused ==
    op = "WritePacket"
        => /\ Len(pkt.Body) > 1600 => (err = ErrJumboPacket /\ ~io.called)
           /\ Len(pkt.Body) <= 1600 => err # ErrJumboPacket

---------------------------------------------------------------------------
(* The header chain as the claims describe it, read off the bytes b of an  *)
(* IPv6 body: next is the type of the header at offset at.                 *)

\* IPProto has returned for a Packet tagged IPv6 with its fixed header
Walked6 ==
    op = "IPProto" /\ pkt.Protocol = 34525 /\ Len(pkt.Body) >= 40

\* the header at offset at, with its length in units of unit bytes, lies
\* wholly inside b
Inside(b, at, unit) ==
    at + 2 <= Len(b) /\ at + 8 + unit * b[at + 2] <= Len(b)

\* the 13 bits of a fragment header's offset, and its more-fragments bit
Offset6(b, at) == (b[at + 3] * 256 + b[at + 4]) \div 8

More6(b, at) == b[at + 4] % 2 = 1

\* a chain of generic and authentication headers only, each wholly inside
\* b, that ends in a type which is no extension header: [ok, proto, at]
RECURSIVE PlainChain(_, _, _)
PlainChain(b, next, at) ==
    IF next \in {0, 43, 60} THEN
        IF Inside(b, at, 8)
        THEN PlainChain(b, b[at + 1], at + 8 + 8 * b[at + 2])
        ELSE [ok |-> FALSE, proto |-> 0, at |-> 0]
    ELSE IF next = 51 THEN
        IF Inside(b, at, 4)
        THEN PlainChain(b, b[at + 1], at + 8 + 4 * b[at + 2])
        ELSE [ok |-> FALSE, proto |-> 0, at |-> 0]
    ELSE IF next \in {44, 59} THEN [ok |-> FALSE, proto |-> 0, at |-> 0]
    ELSE [ok |-> TRUE, proto |-> next, at |-> at]

\* the offset of the first fragment header the walk reaches, inside b, that
\* has offset bits set or (with mf) the more-fragments bit; -1 if none
RECURSIVE StopAt(_, _, _, _)
StopAt(b, next, at, mf) ==
    IF next \in {0, 43, 60} THEN
        IF Inside(b, at, 8)
        THEN StopAt(b, b[at + 1], at + 8 + 8 * b[at + 2], mf)
        ELSE -1
    ELSE IF next = 51 THEN
        IF Inside(b, at, 4)
        THEN StopAt(b, b[at + 1], at + 8 + 4 * b[at + 2], mf)
        ELSE -1
    ELSE IF next = 44 THEN
        IF at + 8 > Len(b) THEN -1
        ELSE IF Offset6(b, at) # 0 \/ (mf /\ More6(b, at)) THEN at
        ELSE StopAt(b, b[at + 1], at + 8, mf)
    ELSE -1

\* the walk comes to an extension header that does not lie wholly inside b
RECURSIVE RunsOff(_, _, _)
RunsOff(b, next, at) ==
    IF next \in {0, 43, 60} THEN
        IF Inside(b, at, 8)
        THEN RunsOff(b, b[at + 1], at + 8 + 8 * b[at + 2])
        ELSE TRUE
    ELSE IF next = 51 THEN
        IF Inside(b, at, 4)
        THEN RunsOff(b, b[at + 1], at + 8 + 4 * b[at + 2])
        ELSE TRUE
    ELSE IF next = 44 THEN
        IF at + 8 > Len(b) THEN TRUE
        ELSE IF Offset6(b, at) # 0 THEN FALSE
        ELSE RunsOff(b, b[at + 1], at + 8)
    ELSE FALSE

\* the three results of the last IPProto
Returned(proto, at, frag) ==
    ~res.panic /\ res.proto = proto /\ res.at = at /\ res.frag = frag

---------------------------------------------------------------------------
(* C7: for an IPv6 Packet whose chain is of generic headers (0, 43, 60)    *)
(* and authentication headers (51) only, each wholly inside the Body, and  *)
(* ends in a type that is not 0, 43, 44, 51, 59 or 60, IPProto returns     *)
(* that type, false, and 40 plus 8 + 8*len for each generic and 8 + 4*len  *)
(* for each authentication header; a lone AH with length field 2 moves the *)
(* offset by 16.                                                           *)
C7_PlainChainWalk ==
    Walked6 =>
        LET b == pkt.Body
            r == PlainChain(b, b[7], 40)
        IN /\ r.ok => Returned(r.proto, r.at, FALSE)
           /\ (b[7] = 51 /\ Len(b) >= 56 /\ b[42] = 2 /\ b[41] = 6)
                => Returned(6, 40 + 16, FALSE)

\* hop-by-hop of 8 bytes, routing of 16 bytes, then TCP
C7_Witness ==
    /\ Walked6
    /\ Len(pkt.Body) >= 64
    /\ pkt.Body[7] = 0
    /\ pkt.Body[41] = 43 /\ pkt.Body[42] = 0
    /\ pkt.Body[49] = 6 /\ pkt.Body[50] = 1
    /\ Returned(6, 64, FALSE)

(* C8 as stated: when the walk reaches a fragment header inside the Body   *)
(* whose more-fragments bit is set or whose offset bits are not zero,      *)
(* IPProto stops there and returns the header's next-header byte, the      *)
(* offset after the header, and true.                                      *)
C8_Original ==
    Walked6 =>
        LET b == pkt.Body
            at == StopAt(b, b[7], 40, TRUE)
        IN at >= 0 => Returned(b[at + 1], at + 8, TRUE)

(* C8 as amended: IPProto stops so at the first fragment header inside the *)
(* Body whose 13 offset bits are not all zero; the more-fragments bit does *)
(* not count: a fragment header with offset 0 is walked over as any other  *)
(* header, and IPProto returns true for no other packet.                   *)
C8_StopsAtNonFirstFragment ==
    Walked6 =>
        LET b == pkt.Body
            at == StopAt(b, b[7], 40, FALSE)
        IN /\ at >= 0 => Returned(b[at + 1], at + 8, TRUE)
           /\ res.frag => at >= 0

\* a fragment header with offset bits set whose next-header byte names a
\* hop-by-hop header, which follows and is not walked
C8_Witness ==
    /\ Walked6
    /\ Len(pkt.Body) >= 56
    /\ pkt.Body[7] = 44
    /\ pkt.Body[41] = 0
    /\ Offset6(pkt.Body, 40) # 0
    /\ Returned(0, 48, TRUE)

\* the 13 bits of the IPv4 fragment offset, and the more-fragments flag
Offset4(b) == (b[7] % 32) * 256 + b[8]

More4(b) == (b[7] \div 32) % 2 = 1

\* IPProto has returned for a Packet tagged IPv4 with at least 20 bytes
Walked4 ==
    op = "IPProto" /\ pkt.Protocol = 2048 /\ Len(pkt.Body) >= 20

(* C9 as stated: for an IPv4 Packet of at least 20 bytes IPProto returns   *)
(* byte 9, 4 times the low nibble of byte 0, and true exactly when the     *)
(* fragment offset is not zero or the more-fragments flag is set.          *)
C9_Original ==
    Walked4 =>
        LET b == pkt.Body
        IN Returned(b[10], (b[1] % 16) * 4, Offset4(b) # 0 \/ More4(b))

(* C9 as amended: ... and true exactly when the 13-bit fragment offset is  *)
(* not zero; the more-fragments flag does not count.                       *)
C9_IPv4Proto ==
    Walked4 =>
        LET b == pkt.Body
        IN Returned(b[10], (b[1] % 16) * 4, Offset4(b) # 0)

\* a first fragment: more-fragments set, offset 0, and IPProto says false
C9_Witness ==
    /\ Walked4
    /\ More4(pkt.Body)
    /\ Offset4(pkt.Body) = 0
    /\ Returned(pkt.Body[10], 20, FALSE)

(* C10: IPProto reads no Body index at or beyond len(Body), whatever the   *)
(* Body; when the IPv6 walk comes to an extension header that needs bytes  *)
(* past the end of the Body it returns 0, 0, false.                        *)
C10_NoReadPastEnd ==
    op = "IPProto" =>
        /\ ~res.panic
        /\ \A i \in res.reads : 0 <= i /\ i < Len(pkt.Body)
        /\ (Walked6 /\ RunsOff(pkt.Body, pkt.Body[7], 40))
             => Returned(0, 0, FALSE)

\* a hop-by-hop header whose length byte points far beyond the body
C10_Witness ==
    /\ Walked6
    /\ pkt.Body[7] = 0
    /\ Len(pkt.Body) >= 44
    /\ pkt.Body[42] = 255
    /\ RunsOff(pkt.Body, 0, 40)
    /\ 41 \in res.reads
    /\ Returned(0, 0, FALSE)

---------------------------------------------------------------------------
\* the offset at which the walk over the headers of b comes to type 59:
\* generic and authentication headers are stepped over by their length
\* bytes, a fragment header with offset 0 by 8; -1 if the walk comes to
\* no type 59
RECURSIVE NoNextAt(_, _, _)
NoNextAt(b, next, at) ==
    IF next = 59 THEN at
    ELSE IF at + 4 > Len(b) THEN -1
    ELSE IF next \in {0, 43, 60} THEN NoNextAt(b, b[at + 1], at + 8 + 8 * b[at + 2])
    ELSE IF next = 51 THEN NoNextAt(b, b[at + 1], at + 8 + 4 * b[at + 2])
    ELSE IF next = 44 /\ Offset6(b, at) = 0 THEN NoNextAt(b, b[at + 1], at + 8)
    ELSE -1

(* C11: for an IPv6 Packet whose chain walk comes to next-header value 59  *)
(* at an offset not beyond the end of the Body, IPProto returns 0, the     *)
(* length of the Body, and false.                                          *)
C11_NoNextHeader ==
    Walked6 =>
        LET b == pkt.Body
            at == NoNextAt(b, b[7], 40)
        IN (at >= 0 /\ at <= Len(b)) => Returned(0, Len(b), FALSE)

\* a hop-by-hop header, then type 59, then bytes that are no payload
C11_Witness ==
    /\ Walked6
    /\ Len(pkt.Body) > 48
    /\ pkt.Body[7] = 0
    /\ pkt.Body[41] = 59
    /\ pkt.Body[42] = 0
    /\ Returned(0, Len(pkt.Body), FALSE)

---------------------------------------------------------------------------
\* the three results of the last ICMPType
Gave(proto, type, code) ==
    ~icmp.panic /\ icmp.proto = proto /\ icmp.type = type /\ icmp.code = code

\* an IPv4 packet that is no fragment and carries an ICMP echo request
\* whole behind its header
EchoRequest4(p) ==
    LET b == p.Body
        hl == 4 * (b[1] % 16)
    IN /\ p.Protocol = 2048
       /\ Len(b) >= 20
       /\ hl >= 20
       /\ hl + 4 <= Len(b)
       /\ b[10] = 1
       /\ Offset4(b) = 0
       /\ ~More4(b)
       /\ b[hl + 1] = 8
       /\ b[hl + 2] = 0

(* C12: ICMPType returns p and the two Body bytes at off and off + 1       *)
(* exactly when IPProto returns p, off, false with p one of 1 and 58 and   *)
(* off + 4 at most the length of the Body; in every other case, so         *)
(* whenever IPProto reports a fragment, it returns 0, 0, 0.  For an ICMPv4 *)
(* echo request that is no fragment it returns 1, 8, 0.                    *)
C12_ICMPType ==
    op = "ICMPType" =>
        LET b == pkt.Body
            isICMP == /\ ~res.panic
                      /\ ~res.frag
                      /\ res.proto \in {1, 58}
                      /\ res.at + 4 <= Len(b)
        IN /\ IF isICMP THEN Gave(res.proto, b[res.at + 1], b[res.at + 2])
                        ELSE Gave(0, 0, 0)
           /\ EchoRequest4(pkt) => Gave(1, 8, 0)

\* an echo request behind an IPv4 header with options
C12_Witness ==
    /\ op = "ICMPType"
    /\ EchoRequest4(pkt)
    /\ pkt.Body[1] = 70
    /\ Gave(1, 8, 0)

---------------------------------------------------------------------------
\* the traffic class byte of a whole IP header: byte 1 of an IPv4 header;
\* the low nibble of byte 0 and the high nibble of byte 1 of an IPv6 header
TrafficClass(p) ==
    IF p.Protocol = 2048 THEN p.Body[2]
    ELSE (p.Body[1] % 16) * 16 + p.Body[2] \div 16

WholeHeader(p) ==
    \/ p.Protocol = 2048 /\ Len(p.Body) >= 20
    \/ p.Protocol = 34525 /\ Len(p.Body) >= 40

(* C13: for each of the 64 values d, an IPv4 Body of at least 20 bytes or  *)
(* an IPv6 Body of at least 40 bytes whose traffic class has d in its top  *)
(* 6 bits makes DSCP return d, whatever the other bits of the header; and  *)
(* DSCP returns a value in 0..63 for every Packet.                         *)
C13_DSCPRoundTrip ==
    op = "DSCP" =>
        /\ dscp \in 0..63
        /\ \A d \in 0..63 :
             (WholeHeader(pkt) /\ TrafficClass(pkt) \div 4 = d) => dscp = d

\* an IPv6 header with DSCP 46, both ECN bits and the flow label's high
\* bits set
C13_Witness ==
    /\ op = "DSCP"
    /\ pkt.Protocol = 34525
    /\ Len(pkt.Body) >= 40
    /\ pkt.Body[1] % 16 = 11
    /\ pkt.Body[2] = 191
    /\ dscp = 46

---------------------------------------------------------------------------
\* the number of bytes the last WritePacket asked the conduit to write
Requested == IF build = "pi" THEN 4 + Len(pkt.Body) ELSE Len(pkt.Body)

(* C16: in both framings, WritePacket returns the conduit's error whenever *)
(* the conduit's write reports one, whatever the byte count; it returns    *)
(* ErrShortWrite exactly when the conduit reports no error and a byte      *)
(* count other than the number of bytes requested; and nil otherwise.      *)
C16_WriteErrors ==
    op = "WritePacket" =>
        /\ io.called =>
              /\ io.fail => err = "EIO"
              /\ (~io.fail /\ io.n # Requested) => err = ErrShortWrite
              /\ (~io.fail /\ io.n = Requested) => err = "nil"
        /\ err = ErrShortWrite => (io.called /\ ~io.fail /\ io.n # Requested)

\* a prefixed write that the conduit fails after taking a part of the frame
C16_Witness ==
    /\ op = "WritePacket"
    /\ build = "pi"
    /\ io.called
    /\ io.fail
    /\ io.n > 0
    /\ io.n < Requested
    /\ err = "EIO"

---------------------------------------------------------------------------
(* C17: every Packet that the unprefixed ReadPacket returns with a nil     *)
(* error has a Body of at least 20 bytes when tagged IPv4 and of at least  *)
(* 40 bytes when tagged IPv6, also after the trim to the declared length,  *)
(* so that no accessor takes its short-body fallback on it.                *)
C17_MinHeaderAfterRead ==
    (ReadUnprefixed /\ err = "nil") =>
        /\ pkt.Protocol = 2048 => Len(pkt.Body) >= 20
        /\ pkt.Protocol = 34525 => Len(pkt.Body) >= 40

---------------------------------------------------------------------------
(* C18: IPProto returns for every Packet.  In the IPv6 loop each pass that *)
(* does not return moves the offset on by at least 8, so the loop returns  *)
(* after at most (len(Body) - 40) / 8 + 2 passes, whatever the next-header *)
(* and length bytes are.                                                   *)
C18_LoopBound ==
    op = "IPProto" =>
        /\ ~res.panic
        /\ ~Walked6 => res.iters = 0
        /\ Walked6 =>
              /\ res.iters >= 1
              /\ res.iters <= (Len(pkt.Body) - 40) \div 8 + 2
              /\ ~Returned(0, 0, FALSE) => res.at >= 40 + 8 * (res.iters - 1)

\* as many passes as a Body of minimal headers allows: two 8-byte headers
\* in 56 bytes and the pass that returns
C18_Witness ==
    /\ Walked6
    /\ Len(pkt.Body) = 56
    /\ res.iters = 3
    /\ res.at = 56

(* C19: every IPProto result other than 0, 0, false has an offset of at    *)
(* least the minimum header of the Packet's IP version (20 for IPv4, 40    *)
(* for IPv6) and of at most len(Body).                                     *)
C19_OffsetRange ==
    (op = "IPProto" /\ ~Returned(0, 0, FALSE)) =>
        /\ ~res.panic
        /\ res.at <= Len(pkt.Body)
        /\ pkt.Protocol = 2048 => res.at >= 20
        /\ pkt.Protocol = 34525 => res.at >= 40

---------------------------------------------------------------------------
(* The pool and the concurrent calls of the prefixed WritePacket.          *)

\* a call between its Get and its Put
InCall(c) == calls[c].pc \in {"got", "framed", "written"}

\* the arrays that neither lie in the pool nor are held by a call
Missing ==
    {id \in 1..Len(bufs) :
        id \notin free /\ \A c \in Callers : ~(InCall(c) /\ calls[c].buf = id)}

\* the frame of Packet p: two zero bytes, the Protocol big-endian, the Body
FrameOf(p) == <<0, 0, p.Protocol \div 256, p.Protocol % 256>> \o p.Body

(* C14: every prefixed WritePacket that takes an array from the pool puts  *)
(* it back before the call ends, on every path: write success, write      *)
(* error, short write, and whatever the length of the Body; after any      *)
(* sequence of calls no array is left checked out.                         *)
C14_BufferReturned == Missing = {}

(* C15: under every interleaving of concurrent prefixed WritePacket calls, *)
(* no array is held by two calls at once or lies in the pool while held;   *)
(* the frame bytes a call has put in its array stay as it wrote them until *)
(* its release; and an acquire never waits: Get is possible whatever the   *)
(* pool holds, and when the pool is empty it yields a new array of zeros.  *)
C15_NoSharedBuffer ==
    /\ [](\A c \in Callers :
            /\ InCall(c) =>
                  /\ calls[c].buf \in 1..Len(bufs)
                  /\ calls[c].buf \notin free
                  /\ \A d \in Callers \ {c} :
                        InCall(d) => calls[d].buf # calls[c].buf
            /\ (calls[c].pc \in {"framed", "written"}
                    /\ Len(calls[c].pkt.Body) <= 1596)
                  => SubSeq(bufs[calls[c].buf], 1, 4 + Len(calls[c].pkt.Body))
                        = FrameOf(calls[c].pkt)
            /\ (calls[c].pc = "idle" /\ Begun(Callers) < MaxWrites)
                  => ENABLED Get(c))
    /\ [][\A c \in Callers :
            (calls[c].pc = "idle" /\ calls'[c].pc = "got" /\ free = {})
                => /\ Len(bufs') = Len(bufs) + 1
                   /\ calls'[c].buf = Len(bufs')
                   /\ bufs'[Len(bufs')] = << >>]_vars

\* two calls in progress at once, the second on an array made for it
\* because the pool was empty
C15_Witness ==
    /\ calls["a"].pc = "framed"
    /\ calls["b"].pc = "framed"
    /\ calls["a"].buf # calls["b"].buf
    /\ free = {}
    /\ Len(bufs) = 2

(* C20: after any sequence of prefixed WritePacket calls that reuse pooled *)
(* arrays, the bytes a call with a Body of at most 1596 bytes hands to the *)
(* conduit are two zero bytes, the Protocol as 2 big-endian bytes, and the *)
(* Body, and nothing else: no byte an earlier Packet left in the array.    *)
C20_FrameExact ==
    \A c \in Callers :
        (calls[c].pc = "written" /\ Len(calls[c].pkt.Body) <= 1596)
            => calls[c].frame = FrameOf(calls[c].pkt)

\* a 1-byte Body written from an array that still holds a longer frame
C20_Witness ==
    \E c \in Callers :
        /\ calls[c].pc = "written"
        /\ Len(calls[c].pkt.Body) = 1
        /\ Len(bufs[calls[c].buf]) > 5
        /\ bufs[calls[c].buf][6] # 0
        /\ calls[c].frame = FrameOf(calls[c].pkt)

===========================================================================
